---- MODULE Spec2Model ----
(***************************************************************************)
(* A model of the round-robin scheduler: src/model.py (Model and           *)
(* ModelSolutionCallback) driven by src/scheduler.py (main).               *)
(*                                                                         *)
(* Participant names are the naturals 1..MaxN, ordered as Python orders    *)
(* the strings it sorts.  A file name is the sequence of the numbers that  *)
(* "_" joins: <<3>> is the file "3", <<3, 0>> is the file "3_0".  A file's *)
(* content is the sequence of its lines, a line the sequence of the names  *)
(* on it.  A CpModel is the set of the linear constraints added to it; a   *)
(* constraint [pos, neg, dom] says that the number of true variables among *)
(* the cells pos minus the number among the cells neg lies in dom.  An     *)
(* assignment is the matrix (a sequence of rows) of the values 0 and 1 of  *)
(* the variables.                                                          *)
(***************************************************************************)
EXTENDS Integers, Sequences, FiniteSets, TLC

\* ------------------------------------------------------------- bounds
\* The universe of participant names is 1..MaxN.
MaxN == 4
\* The participant graph has at most MaxEdges hierarchy edges.
MaxEdges == 1
\* The historical solution limit is None or one of 0..MaxHistoricalLimit.
MaxHistoricalLimit == 1
\* The solution limit of a run is one of 0..MaxSolutionLimit.
MaxSolutionLimit == 2
\* At most MaxRuns runs of the tool are made on the solution directory.
MaxRuns == 3
\* SpecSizes: the participants are 1..n for an n in 2..MaxParticipants.
MaxParticipants == 6

Names == 1..MaxN

\* historical_solution_limit = None
None == -1

VARIABLES
    participant_graph,          \* [nodes, edges]: the DiGraph main() hands to Model
    desired_group_size,
    historical_solution_limit,
    dir,                        \* the solution directory: file name -> content
    pc,                         \* "idle" | "searching"
    participants,               \* Model._participants: the sorted node list
    search_space,               \* the engine: the satisfying assignments of Model._model
    delivered,                  \* the engine: the assignments it has called back with
    values,                     \* the assignment of the run's last callback (<<>>: none yet)
    solution_name,              \* the identifier solve() computed for the run
    solution_limit,
    solution_count,
    stopped,                    \* StopSearch() was called
    path,                       \* the file the run's last callback wrote (<<>>: none yet)
    status,                     \* the status of the last finished run ("NONE": no run yet)
    earlier_names,              \* the identifiers solve() computed in the earlier runs
    runs                        \* the number of runs started

vars == <<participant_graph, desired_group_size, historical_solution_limit, dir, pc,
          participants, search_space, delivered, values, solution_name,
          solution_limit, solution_count, stopped, path, status, earlier_names, runs>>

\* ------------------------------------------------------------ helpers
Min(S) == CHOOSE x \in S : \A y \in S : x <= y
Max(S) == CHOOSE x \in S : \A y \in S : x >= y

\* sorted(S) for a set of names (or of integers): the element at place i has
\* i - 1 elements before it
sorted(S) ==
    [i \in 1..Cardinality(S) |-> CHOOSE x \in S : Cardinality({y \in S : y < x}) = i - 1]

\* Python's order of two lists: s < t
RECURSIVE LexLess(_, _)
LexLess(s, t) ==
    IF t = <<>> THEN FALSE
    ELSE IF s = <<>> THEN TRUE
    ELSE IF Head(s) # Head(t) THEN Head(s) < Head(t)
    ELSE LexLess(Tail(s), Tail(t))

\* sorted(L) for a set of lists
sorted_lists(L) ==
    [i \in 1..Cardinality(L) |->
        CHOOSE x \in L : Cardinality({y \in L : LexLess(y, x)}) = i - 1]

Range(s) == {s[i] : i \in DOMAIN s}

\* list.index(x)
index(list, x) == Min({i \in DOMAIN list : list[i] = x})

\* itertools.combinations(list, r=2)
combinations2(list) ==
    {<<list[ij[1]], list[ij[2]]>> : ij \in {x \in (DOMAIN list) \X (DOMAIN list) : x[1] < x[2]}}

\* sum(list) for a list given as a bag (value -> number of occurrences), the
\* values taken in increasing order
RECURSIVE sum_from(_, _)
sum_from(bag, values_left) ==
    IF values_left = <<>> THEN 0
    ELSE Head(values_left) * bag[Head(values_left)] + sum_from(bag, Tail(values_left))

sum(bag) == sum_from(bag, sorted(DOMAIN bag))

\* list[::-1]
reversed(list) == [i \in DOMAIN list |-> list[Len(list) + 1 - i]]

\* list[:limit], limit None or a natural
take(list, limit) ==
    IF limit = None \/ limit >= Len(list) THEN list ELSE SubSeq(list, 1, limit)

\* ------------------------------------------------- Model: group sizes
\* mutant: the remainder 1 adds the larger group and forgets to take one group
\* of the desired size away
compute_group_sizes_no_decrement(num_participants, size) ==
    LET quotient == num_participants \div size
        remainder == num_participants % size
        base == (size :> quotient)
    IN  IF remainder = 0 THEN base
        ELSE IF remainder = 1 THEN (size + remainder :> 1) @@ base
        ELSE (remainder :> 1) @@ base

\* Model._compute_group_sizes: a Counter, size -> number of groups of that size
compute_group_sizes(num_participants, size) ==
    LET quotient == num_participants \div size
        remainder == num_participants % size
        base == (size :> quotient)
        group_sizes ==
            IF remainder = 0 THEN base
            ELSE IF remainder = 1
                 THEN (size + remainder :> 1) @@ (size :> quotient - 1)
                 ELSE (remainder :> 1) @@ base
    IN  \* +group_sizes keeps the positive counts
        [k \in {x \in DOMAIN group_sizes : group_sizes[x] > 0} |-> group_sizes[k]]

\* row_sums of _apply_group_size_constraint, as a bag: the value size - 1
\* occurs size * count times
row_sums(group_sizes) ==
    [v \in {k - 1 : k \in DOMAIN group_sizes} |-> (v + 1) * group_sizes[v + 1]]

\* ------------------------------------------------- Model: constraints
Cells(N) == (1..N) \X (1..N)

apply_no_self_pair_constraint(N) ==
    {[pos |-> {<<i, i>>}, neg |-> {}, dom |-> {0}] : i \in 1..N}

\* mutant: no symmetry constraint
apply_symmetric_constraint_dropped(N) == {}

apply_symmetric_constraint(N) ==
    {[pos |-> {<<ij[1], ij[2]>>}, neg |-> {<<ij[2], ij[1]>>}, dom |-> {0}] :
        ij \in {x \in Cells(N) : x[1] < x[2]}}

\* mutant: no transitivity constraint
apply_transitive_constraint_dropped(N) == {}

\* a sum of three booleans that is not 2 is 0, 1 or 3
apply_transitive_constraint(N) ==
    {[pos |-> {<<t[1], t[2]>>, <<t[1], t[3]>>, <<t[2], t[3]>>}, neg |-> {},
      dom |-> (0..3) \ {2}] :
        t \in {x \in (1..N) \X (1..N) \X (1..N) : x[1] < x[2] /\ x[2] < x[3]}}

\* mutant: the rows are constrained, the grand total is not
apply_group_size_constraint_rows_only(N, size) ==
    LET rs == row_sums(compute_group_sizes(N, size))
    IN  {[pos |-> {i} \X (1..N), neg |-> {}, dom |-> DOMAIN rs] : i \in 1..N}

apply_group_size_constraint(N, size) ==
    LET rs == row_sums(compute_group_sizes(N, size))
    IN  {[pos |-> Cells(N), neg |-> {}, dom |-> {sum(rs)}]}
        \cup {[pos |-> {i} \X (1..N), neg |-> {}, dom |-> DOMAIN rs] : i \in 1..N}

apply_hierarchical_constraint(plist, graph) ==
    {[pos |-> {<<index(plist, e[1]), index(plist, e[2])>>}, neg |-> {}, dom |-> {0}] :
        e \in graph.edges}

\* Model._solution_paths: the files whose whole name is digits
solution_paths(d) == {p \in DOMAIN d : Len(p) = 1}

\* int(path.name) of such a file
int(p) == p[1]

\* the graph of one solution file: an edge for every two names on a line
solution_graph(content) ==
    UNION {{{pr[1], pr[2]} : pr \in combinations2(content[l])} : l \in DOMAIN content}

\* mutant: the files are taken oldest first
historical_solutions_oldest_first(d, limit) ==
    LET ids == {int(p) : p \in solution_paths(d)}
        hs_paths == take(sorted(ids), limit)
    IN  {solution_graph(d[<<hs_paths[k]>>]) : k \in DOMAIN hs_paths}

\* Model._historical_solutions: the graphs of the most recent files
historical_solutions(d, limit) ==
    LET ids == {int(p) : p \in solution_paths(d)}
        hs_paths == take(reversed(sorted(ids)), limit)
    IN  {solution_graph(d[<<hs_paths[k]>>]) : k \in DOMAIN hs_paths}

\* mutant: no historical constraint
apply_historical_constraint_dropped(plist, d, limit) == {}

apply_historical_constraint(plist, d, limit) ==
    LET composed_hs == UNION historical_solutions(d, limit)
    IN  {[pos |-> {<<index(plist, pr[1]), index(plist, pr[2])>>}, neg |-> {},
          dom |-> {0}] :
            pr \in {x \in combinations2(plist) : {x[1], x[2]} \in composed_hs}}

\* Model.__init__: the CpModel of a run
Model(graph, size, d, limit) ==
    LET plist == sorted(graph.nodes)
        N == Len(plist)
    IN  apply_no_self_pair_constraint(N)
        \cup apply_symmetric_constraint(N)
        \cup apply_transitive_constraint(N)
        \cup apply_group_size_constraint(N, size)
        \cup apply_hierarchical_constraint(plist, graph)
        \cup apply_historical_constraint(plist, d, limit)

\* ------------------------------------------------------- the engine
\* the value of a linear constraint under the rows assigned so far
Holds(c, rows) ==
    (Cardinality({x \in c.pos : rows[x[1]][x[2]] = 1})
     - Cardinality({x \in c.neg : rows[x[1]][x[2]] = 1})) \in c.dom

\* the last row a constraint reads
LastRow(c) == Max({x[1] : x \in c.pos \cup c.neg})

\* the constraints that read row k and no later row
Decided(cpmodel, k) == {c \in cpmodel : LastRow(c) = k}

\* rows with one more row, such that the constraints decided hold
Extensions(rows, decided, N) ==
    {x \in {Append(rows, r) : r \in [1..N -> {0, 1}]} : \A c \in decided : Holds(c, x)}

\* every assignment of the N x N variables that extends rows and satisfies
\* every constraint of cpmodel, found row by row: a row is kept when the
\* constraints that read no later row hold
RECURSIVE Search(_, _, _)
Search(rows, cpmodel, N) ==
    IF Len(rows) = N THEN {rows}
    ELSE UNION {Search(next, cpmodel, N) :
                next \in UNION {Extensions(rows, decided, N) :
                                decided \in {Decided(cpmodel, Len(rows) + 1)}}}

\* CpSolver.SearchForAllSolutions: the assignments the engine can call back with
SearchForAllSolutions(cpmodel, N) ==
    UNION {Search(<<>>, m, N) : m \in {cpmodel}}

\* ----------------------------------------------- the solution callback
\* nx.connected_components of the graph with the undirected edges E
RECURSIVE Component(_, _)
Component(S, E) ==
    IF \A e \in E : e \cap S = {} \/ e \subseteq S THEN S
    ELSE UNION {Component(T, E) : T \in {S \cup UNION {e \in E : e \cap S # {}}}}

connected_components(E) == {Component({n}, E) : n \in UNION E}

\* the graph on_solution_callback builds: variable.Name().split() of the true
\* variables [i][j] with i < j
solution_edges(plist, a) ==
    {{plist[ij[1]], plist[ij[2]]} :
        ij \in {x \in Cells(Len(plist)) : x[1] < x[2] /\ a[x[1]][x[2]] = 1}}

groups_of(plist, a) ==
    sorted_lists({sorted(g) : g \in connected_components(solution_edges(plist, a))})

\* mutant: the limit 0 is named like the limit 1
solution_path_unsuffixed_at_0(name, limit, count) ==
    IF limit <= 1 THEN <<name>> ELSE <<name, count>>

\* the file of a solution: the identifier, "_"-joined with the counter unless
\* the limit is 1
solution_path(name, limit, count) ==
    IF limit = 1 THEN <<name>> ELSE <<name, count>>

\* path.open(mode="wt") and the writes: the file is created or replaced
write(d, p, content) == [q \in DOMAIN d \cup {p} |-> IF q = p THEN content ELSE d[q]]

\* mutant: the search is stopped one solution late
must_stop_late(limit, count) == 0 < limit /\ limit < count

\* ModelSolutionCallback.on_solution_callback's test for StopSearch()
must_stop(limit, count) == 0 < limit /\ limit <= count

\* mutant: the largest identifier is not incremented
next_solution_name_no_increment(d) ==
    IF solution_paths(d) = {} THEN -1 ELSE Max({int(p) : p \in solution_paths(d)})

\* Model.solve: the identifier of the run
next_solution_name(d) ==
    1 + (IF solution_paths(d) = {} THEN -1 ELSE Max({int(p) : p \in solution_paths(d)}))

\* ------------------------------------------------------------ actions
Graphs(nodes) ==
    {[nodes |-> nodes, edges |-> E] :
        E \in {X \in SUBSET {e \in nodes \X nodes : e[1] # e[2]} :
                Cardinality(X) <= MaxEdges}}

\* what Model.__init__ accepts
valid(graph, size, limit) ==
    /\ Cardinality(graph.nodes) >= 2
    /\ size >= 2
    /\ Cardinality(graph.nodes) >= size
    /\ (limit = None \/ limit >= 0)

InitRun ==
    /\ dir = <<>>
    /\ pc = "idle"
    /\ participants = <<>>
    /\ search_space = {}
    /\ delivered = {}
    /\ values = <<>>
    /\ solution_name = -1
    /\ solution_limit = 1
    /\ solution_count = 0
    /\ stopped = FALSE
    /\ path = <<>>
    /\ status = "NONE"
    /\ earlier_names = {}
    /\ runs = 0

Init ==
    /\ \E nodes \in SUBSET Names : participant_graph \in Graphs(nodes)
    /\ desired_group_size \in 2..MaxN
    /\ historical_solution_limit \in {None} \cup 0..MaxHistoricalLimit
    /\ valid(participant_graph, desired_group_size, historical_solution_limit)
    /\ InitRun

\* scheduler.main: Model(...) and solve(solution_limit=limit) up to the call of
\* the engine
main(limit) ==
    /\ pc = "idle"
    /\ limit >= 0
    /\ pc' = "searching"
    /\ participants' = sorted(participant_graph.nodes)
    /\ search_space' = SearchForAllSolutions(
            Model(participant_graph, desired_group_size, dir,
                  historical_solution_limit),
            Cardinality(participant_graph.nodes))
    /\ delivered' = {}
    /\ solution_name' = next_solution_name(dir)
    /\ solution_limit' = limit
    /\ solution_count' = 0
    /\ stopped' = FALSE
    /\ values' = <<>>
    /\ path' = <<>>
    /\ earlier_names' = IF status = "NONE" THEN earlier_names
                        ELSE earlier_names \cup {solution_name}
    /\ UNCHANGED <<participant_graph, desired_group_size, historical_solution_limit,
                   dir, status>>

\* the engine finds a solution and calls ModelSolutionCallback.on_solution_callback
on_solution_callback ==
    /\ pc = "searching"
    /\ ~stopped
    /\ \E a \in search_space \ delivered :
        /\ values' = a
        /\ delivered' = delivered \cup {a}
        /\ path' = solution_path(solution_name, solution_limit, solution_count)
        /\ dir' = write(dir, solution_path(solution_name, solution_limit, solution_count),
                        groups_of(participants, a))
    /\ solution_count' = solution_count + 1
    /\ stopped' = must_stop(solution_limit, solution_count + 1)
    /\ UNCHANGED <<participant_graph, desired_group_size, historical_solution_limit,
                   pc, participants, search_space, solution_name, solution_limit,
                   status, earlier_names, runs>>

\* SearchForAllSolutions returns, the search stopped or exhausted, and solve()
\* logs the status: INFEASIBLE when the engine found no solution
solve_returns ==
    /\ pc = "searching"
    /\ stopped \/ search_space \subseteq delivered
    /\ pc' = "idle"
    /\ status' = IF solution_count = 0 THEN "INFEASIBLE"
                 ELSE IF search_space \subseteq delivered THEN "OPTIMAL"
                 ELSE "FEASIBLE"
    /\ UNCHANGED <<participant_graph, desired_group_size, historical_solution_limit,
                   dir, participants, search_space, delivered, values, solution_name,
                   solution_limit, solution_count, stopped, path, earlier_names,
                   runs>>

\* the tool is run once more, with any solution limit
Run ==
    /\ runs < MaxRuns
    /\ \E limit \in 0..MaxSolutionLimit : main(limit)
    /\ runs' = runs + 1

Next ==
    \/ Run
    \/ on_solution_callback
    \/ solve_returns

Spec == Init /\ [][Next]_vars

\* ------------------------------------------ SpecSizes: one run, no exclusions
\* The participants are 1..n, the graph has no edge and the directory is empty,
\* so the model holds the no-self-pair, symmetry, transitivity and group size
\* constraints alone; the run stops at its first solution, which is any of the
\* satisfying assignments.
InitSizes ==
    /\ \E n \in 2..MaxParticipants : participant_graph = [nodes |-> 1..n, edges |-> {}]
    /\ desired_group_size \in 2..MaxParticipants
    /\ historical_solution_limit = None
    /\ valid(participant_graph, desired_group_size, historical_solution_limit)
    /\ InitRun

RunOnce ==
    /\ runs = 0
    /\ main(1)
    /\ runs' = runs + 1

NextSizes ==
    \/ RunOnce
    \/ on_solution_callback
    \/ solve_returns

SpecSizes == InitSizes /\ [][NextSizes]_vars

\* ------------------------- SpecDefault: the default run, again and again
\* The tool is run for ever with the same participants, hierarchy and desired
\* group size, historical_solution_limit None and solution_limit 1.  A run
\* that persists a solution uses at least one pair no earlier file holds, so
\* the guard on the identifier stops no run of the code.
PairCount == (Cardinality(participant_graph.nodes)
              * (Cardinality(participant_graph.nodes) - 1)) \div 2

InitDefault ==
    /\ \E nodes \in SUBSET Names : participant_graph \in Graphs(nodes)
    /\ desired_group_size \in 2..MaxN
    /\ historical_solution_limit = None
    /\ valid(participant_graph, desired_group_size, historical_solution_limit)
    /\ InitRun

RunAgain ==
    /\ next_solution_name(dir) <= PairCount
    /\ main(1)
    /\ UNCHANGED runs

NextDefault ==
    \/ RunAgain
    \/ on_solution_callback
    \/ solve_returns

SpecDefault == InitDefault /\ [][NextDefault]_vars /\ WF_vars(NextDefault)

\* ------------------------------------------------------------- claims
N == Cardinality(participant_graph.nodes)

\* the lines of the file the run's last callback wrote
Written == dir[path]

\* the step of one call of on_solution_callback
CallbackStep == pc = "searching" /\ solution_count' = solution_count + 1

\* C1: the groups on_solution_callback writes for a satisfying assignment
\* partition the participants (every participant is on exactly one line, once,
\* and only participants are written) and every two members of a group have
\* their pair variable true.
C1_Partition ==
    path # <<>> =>
        /\ \A p \in participant_graph.nodes :
                Cardinality({l \in DOMAIN Written : p \in Range(Written[l])}) = 1
        /\ \A l \in DOMAIN Written :
                /\ Range(Written[l]) \subseteq participant_graph.nodes
                /\ Len(Written[l]) = Cardinality(Range(Written[l]))
                /\ \A a, b \in Range(Written[l]) :
                        a # b => values[index(participants, a)][index(participants, b)] = 1

C1_Witness == path # <<>> /\ N = 5 /\ Len(Written) = 2

\* C2: the written groups have exactly the sizes of the distribution of
\* _compute_group_sizes, each size as often as the distribution says.
C2_Sizes ==
    path # <<>> =>
        LET group_sizes == compute_group_sizes(N, desired_group_size)
        IN  \A k \in 0..N :
                Cardinality({l \in DOMAIN Written : Len(Written[l]) = k})
                = IF k \in DOMAIN group_sizes THEN group_sizes[k] ELSE 0

C2_Witness ==
    path # <<>> /\ N = 6 /\ desired_group_size = 4 /\ Len(Written) = 2

\* C3: no line of any file written holds both ends of a hierarchy edge.
C3_Hierarchy ==
    \A e \in participant_graph.edges : \A p \in DOMAIN dir : \A l \in DOMAIN dir[p] :
        ~({e[1], e[2]} \subseteq Range(dir[p][l]))

\* a solution was written although an edge runs from a later participant to an
\* earlier one: its variable lies below the diagonal, where the callback never
\* reads
C3_Witness ==
    path # <<>> /\ \E e \in participant_graph.edges : e[1] > e[2]

\* the pairs together on a line of one of the limit most recent solutions of
\* the directory d (the files named by a bare identifier)
RecentPairs(d, limit) ==
    LET bare == {p \in DOMAIN d : Len(p) = 1}
        recent == {p \in bare :
                      limit = None \/ Cardinality({q \in bare : q[1] > p[1]}) < limit}
    IN  UNION {UNION {{{a, b} : a, b \in Range(d[p][l])} : l \in DOMAIN d[p]} :
                  p \in recent}

\* C4: a callback of a run writes no group that holds two participants that
\* are together in a group of one of the historical_solution_limit most
\* recent solutions the directory held before it.
C4_History ==
    [][CallbackStep =>
          \A pr \in RecentPairs(dir, historical_solution_limit) :
              Cardinality(pr) = 2 =>
                  \A l \in DOMAIN dir'[path'] : ~(pr \subseteq Range(dir'[path'][l]))]_vars

\* the third run, limited to the most recent solution, has written a solution
C4_Witness ==
    /\ historical_solution_limit = 1
    /\ {<<0>>, <<1>>} \subseteq DOMAIN dir
    /\ solution_name = 2
    /\ path # <<>>

\* C5: the sizes of the distribution of _compute_group_sizes, each counted as
\* often as the distribution says, add up to the number of participants.
C5_SumIsN == sum(compute_group_sizes(N, desired_group_size)) = N

C5_Witness == pc = "searching" /\ N % desired_group_size >= 2

\* C6: with a positive limit StopSearch() has been called exactly when the
\* counter has reached the limit, and the counter (the number of solutions the
\* run persisted) never exceeds it; with the limit 0 it is never called.
C6_StopAtLimit ==
    /\ solution_count = Cardinality(delivered)
    /\ solution_limit > 0 =>
        /\ stopped <=> solution_count = solution_limit
        /\ solution_count <= solution_limit
    /\ solution_limit = 0 => ~stopped

C6_Witness == solution_limit = 2 /\ solution_count = 2 /\ stopped

\* C7 as claimed: the identifier of a run is strictly greater than the
\* identifier of every earlier run.
C7_StrictlyIncreasing ==
    pc = "searching" => \A e \in earlier_names : solution_name > e

\* C7 as amended: when a run starts, its identifier is at least the identifier
\* of every earlier run, and strictly greater than every identifier under
\* which the directory holds a solution file (such a file was written by an
\* earlier run whose solution limit was 1 and which found a solution).
C7_Monotone ==
    (pc = "searching" /\ solution_count = 0) =>
        /\ \A e \in earlier_names : solution_name >= e
        /\ \A p \in DOMAIN dir : Len(p) = 1 => solution_name > p[1]

\* a run reuses the identifier of an earlier run while the directory holds a
\* solution under a bare identifier
C7_Witness ==
    /\ pc = "searching" /\ solution_count = 0
    /\ solution_name \in earlier_names
    /\ \E e \in earlier_names : <<e>> \in DOMAIN dir

\* C8 as claimed: the file a callback opens for writing did not exist before.
C8_WriteOnce == [][CallbackStep => path' \notin DOMAIN dir]_vars

\* C9: the file is named by the identifier of the run, alone when the limit is
\* 1, and followed by the value of the counter before the increment exactly
\* when more than one solution is requested (the limit is 0, unlimited, or
\* more than 1).
C9_FileName ==
    path # <<>> =>
        /\ path[1] = solution_name
        /\ Len(path) \in {1, 2}
        /\ Len(path) = 2 <=> (solution_limit = 0 \/ solution_limit > 1)
        /\ Len(path) = 2 => path[2] = solution_count - 1

C9_Witness == Len(path) = 2 /\ path[2] = 1 /\ solution_limit = 0

\* C10: with historical_solution_limit None and solution_limit 1, from some
\* run on every run ends infeasible without a callback, and the directory
\* never changes again.
C10_Exhausts ==
    /\ <>[](status = "INFEASIBLE" /\ solution_count = 0)
    /\ <>[][dir' = dir]_vars

\* the pairings are exhausted after three runs have each persisted a solution
C10_Witness ==
    pc = "idle" /\ status = "INFEASIBLE" /\ {<<0>>, <<1>>, <<2>>} \subseteq DOMAIN dir

====
